---- MODULE Spec2Model ----
(***************************************************************************)
(* Model of the bounded concurrent rendering core of pdf-forge              *)
(* (internal/converters/chrome.go): the worker-pool admission gate, the     *)
(* per-request conversion pipeline with its deferred cleanup, and the       *)
(* metrics counters.                                                        *)
(*                                                                          *)
(* chrome.go's ConvertHTML takes its slot from c.semaphore while ConvertURL *)
(* and ConvertImages take theirs from c.workerPool.  The semaphore field is *)
(* declared and constructed in manipulator.go (lines 548 and 570) as a      *)
(* channel of capacity maxWorkers; both channels are modelled by their      *)
(* lengths.                                                                 *)
(***************************************************************************)
EXTENDS Integers, FiniteSets, Sequences, TLC

\* Number of converter calls issued concurrently.
NumReqs == 2

\* Capacity given to NewChromeConverter (the MAX_WORKERS setting).
MaxWorkers == 1

Requests == 1..NumReqs

maxWorkers == MaxWorkers

\* models.ConversionType values handled by the converter.
ConvTypes == {"html", "url", "markdown", "image", "images"}

\* The converter method that finally runs a request of type t:
\* ConvertMarkdown delegates to ConvertHTML, ConvertImage to ConvertImages.
Route(t) ==
    CASE t = "html"     -> "ConvertHTML"
      [] t = "markdown" -> "ConvertHTML"
      [] t = "url"      -> "ConvertURL"
      [] t = "image"    -> "ConvertImages"
      [] t = "images"   -> "ConvertImages"

Methods == {"ConvertHTML", "ConvertURL", "ConvertImages", "MergePDFs"}

\* The label a method passes to incrementMetric ("none": it never calls it).
MetricLabel(route) ==
    CASE route = "ConvertURL"    -> "url"
      [] route = "ConvertImages" -> "images"
      [] route = "MergePDFs"     -> "merge"
      [] route = "ConvertHTML"   -> "none"

Labels == {"url", "images", "merge"}

\* The chromedp.Run action list of each route, in order.
Stages(route) ==
    CASE route = "ConvertHTML"   -> <<"navigate", "setcontent", "waitready", "sleep", "print">>
      [] route = "ConvertURL"    -> <<"navigate", "waitready", "print">>
      [] route = "ConvertImages" -> <<"navigate", "setcontent", "sleep", "print">>

RunStages == {"navigate", "setcontent", "waitready", "sleep", "print"}

\* Stages written as chromedp.ActionFunc closures: caller code that may panic.
ActionFuncStages == {"setcontent", "print"}

\* Stages that wait on the content source and may never complete.
StallableStages == {"navigate", "waitready"}

ErrKinds == {"nil", "fail", "timeout", "panic"}

NoEntry == -1

\* Value of result[r] while the call has not computed its return values.
NoResult == [bytes |-> FALSE, err |-> "pending"]

\* ctxOf[r] while request r has no chromedp context.
NoContext == 0

\* ---------------------------------------------------------------------------
\* Options and print parameters.  Lengths are in hundredths of an inch and the
\* scale in hundredths (8.27in = 827, scale 1.0 = 100, scale 0.05 = 5).
\* ---------------------------------------------------------------------------

PageSizes == {"A4", "A3", "Letter", "Legal", "Tabloid", "Custom"}

Orientations == {"portrait", "landscape"}

\* PageSize.GetDimensions: the lookup table, A4 for any other value.
GetDimensions(p) ==
    CASE p = "A4"      -> [Width |-> 827,  Height |-> 1169]
      [] p = "A3"      -> [Width |-> 1169, Height |-> 1654]
      [] p = "Letter"  -> [Width |-> 850,  Height |-> 1100]
      [] p = "Legal"   -> [Width |-> 850,  Height |-> 1400]
      [] p = "Tabloid" -> [Width |-> 1100, Height |-> 1700]
      [] OTHER         -> [Width |-> 827,  Height |-> 1169]

\* A nil *Margins.
NilMargins == [isNil |-> TRUE, Top |-> 0, Bottom |-> 0, Left |-> 0, Right |-> 0]

DefaultMargins == [isNil |-> FALSE, Top |-> 40, Bottom |-> 40, Left |-> 40, Right |-> 40]

\* A nil *PDFOptions.
NilOptions ==
    [isNil |-> TRUE, PageSize |-> "", Orientation |-> "", Margins |-> NilMargins,
     PrintBackground |-> FALSE, Scale |-> 0]

DefaultOptions ==
    [isNil |-> FALSE, PageSize |-> "A4", Orientation |-> "portrait",
     Margins |-> [isNil |-> FALSE, Top |-> 40, Bottom |-> 40, Left |-> 40, Right |-> 40],
     PrintBackground |-> TRUE, Scale |-> 100]

\* Requested scales: negative, zero (field omitted), between 0 and 0.1, the
\* ends of the documented range, values inside it and a value above it.
ScaleInputs == {-100, 0, 5, 10, 50, 100, 200, 500}

MarginInputs ==
    {NilMargins, [isNil |-> FALSE, Top |-> 100, Bottom |-> 50, Left |-> 25, Right |-> 75]}

\* The options a caller can pass: nil, or a PDFOptions value whose fields are
\* set or left at their zero value.
OptionInputs ==
    {NilOptions} \cup
    [isNil : {FALSE}, PageSize : PageSizes, Orientation : Orientations \cup {""},
     Margins : MarginInputs, PrintBackground : BOOLEAN, Scale : ScaleInputs]

\* page.PrintToPDF(): the parameter struct with every field at its zero value.
PrintToPDF ==
    [PaperWidth |-> 0, PaperHeight |-> 0, PrintBackground |-> FALSE,
     MarginTop |-> 0, MarginBottom |-> 0, MarginLeft |-> 0, MarginRight |-> 0,
     Scale |-> 0]

\* WithMarginTop/Bottom/Left/Right applied to parameters p.
WithMargins(p, m) ==
    [p EXCEPT !.MarginTop = m.Top, !.MarginBottom = m.Bottom,
              !.MarginLeft = m.Left, !.MarginRight = m.Right]

\* The parameters ConvertHTML's print step passes: A4 unless the page size
\* is "Letter", landscape swap, background always on, the given margins or
\* 0, no scale.
ConvertHTMLParams(opts) ==
    LET letter == ~opts.isNil /\ opts.PageSize = "Letter"
        width  == IF letter THEN 850 ELSE 827
        height == IF letter THEN 1100 ELSE 1169
        swap   == ~opts.isNil /\ opts.Orientation = "landscape"
        p      == [PrintToPDF EXCEPT !.PaperWidth = IF swap THEN height ELSE width,
                                     !.PaperHeight = IF swap THEN width ELSE height,
                                     !.PrintBackground = TRUE]
    IN IF ~opts.isNil /\ ~opts.Margins.isNil
       THEN WithMargins(p, opts.Margins)
       ELSE WithMargins(p, NilMargins)

\* `scale := opts.Scale; if scale <= 0 || scale > 2 { scale = 1.0 }`
ClampScale(scale) == IF scale <= 0 \/ scale > 200 THEN 100 ELSE scale

\* The parameters ConvertURL's print step passes: nil options become
\* DefaultOptions, dimensions from the table with landscape swap, the given
\* margins or DefaultMargins, the requested background flag, the clamped
\* scale.
ConvertURLParams(o) ==
    LET opts    == IF o.isNil THEN DefaultOptions ELSE o
        dims    == GetDimensions(opts.PageSize)
        swap    == opts.Orientation = "landscape"
        margins == IF opts.Margins.isNil THEN DefaultMargins ELSE opts.Margins
    IN WithMargins([PrintToPDF EXCEPT
                       !.PrintBackground = opts.PrintBackground,
                       !.PaperWidth = IF swap THEN dims.Height ELSE dims.Width,
                       !.PaperHeight = IF swap THEN dims.Width ELSE dims.Height,
                       !.Scale = ClampScale(opts.Scale)],
                   margins)

\* The parameters ConvertImages' print step passes: dimensions from the
\* table with landscape swap, background on, margins 0, no scale.
ConvertImagesParams(o) ==
    LET opts == IF o.isNil THEN DefaultOptions ELSE o
        dims == GetDimensions(opts.PageSize)
        swap == opts.Orientation = "landscape"
    IN WithMargins([PrintToPDF EXCEPT
                       !.PrintBackground = TRUE,
                       !.PaperWidth = IF swap THEN dims.Height ELSE dims.Width,
                       !.PaperHeight = IF swap THEN dims.Width ELSE dims.Height],
                   NilMargins)

\* The converter methods whose parameters and return values are followed:
\* the three of chrome.go and the ConvertURL of manipulator.go.
CallVariants == {"ConvertHTML", "ConvertURL", "ConvertImages", "manipulator.ConvertURL"}

\* The parameters the print step of a method passes for options o;
\* manipulator.go's ConvertURL sets the background flag only.
PrintParams(fn, o) ==
    CASE fn = "ConvertHTML"   -> ConvertHTMLParams(o)
      [] fn = "ConvertURL"    -> ConvertURLParams(o)
      [] fn = "ConvertImages" -> ConvertImagesParams(o)
      [] fn = "manipulator.ConvertURL" -> [PrintToPDF EXCEPT !.PrintBackground = TRUE]

\* The chromedp.Sleep between the load and the print step, in milliseconds
\* (0: the action list has no Sleep).
SettleDelay(fn) ==
    CASE fn = "ConvertHTML"   -> 3000
      [] fn = "ConvertURL"    -> 0
      [] fn = "ConvertImages" -> 500
      [] fn = "manipulator.ConvertURL" -> 2000

\* The deadline context.WithTimeout puts on the task context, in seconds.
Timeout(fn) ==
    CASE fn = "ConvertHTML"   -> 60
      [] fn = "ConvertURL"    -> 120
      [] fn = "ConvertImages" -> 120
      [] fn = "manipulator.ConvertURL" -> 60

\* Value of `call` while no single call is followed.
NoCall ==
    [fn |-> "none", opts |-> NilOptions, step |-> "none", params |-> PrintToPDF,
     settle |-> 0, deadline |-> 0, ret |-> NoResult]

\* ---------------------------------------------------------------------------
\* RateLimiter (middleware.go).  Time is counted in ticks; the window of one
\* minute is Window ticks.
\* ---------------------------------------------------------------------------

NumConns == 2
MaxTime == 2
Window == 2

\* The goroutines net/http runs the handler in, one per request.
Conns == 1..NumConns

\* Client addresses (r.RemoteAddr).
Addrs == {"a", "b"}

\* Values of RATE_LIMIT: off (0 and negative) and on.
LimitInputs == {-1, 0, 1, 2}

\* A handler goroutine that has not received its request.
IdleConn == [pc |-> "idle", ip |-> "", now |-> 0, valid |-> <<>>]

\* Value of `rl` while no rate limiter is followed.
NoLimiter ==
    [limit |-> 0, requests |-> [a \in Addrs |-> <<>>], clock |-> 0,
     conn |-> [h \in Conns |-> IdleConn], forwarded |-> {}, fatal |-> FALSE,
     on |-> FALSE]

\* ---------------------------------------------------------------------------
\* PDFManipulator (manipulator.go).  A PDF is the sequence of the page
\* numbers of the input it holds; a page range is <<p>> ("%d") or <<s, e>>
\* ("%d-%d"), and a range list is a sequence of page ranges (joined by ",").
\* ---------------------------------------------------------------------------

MaxPages == 4
MaxParts == 2

\* Page numbers a request can name: the pages of the largest input and one
\* page beyond it.
PageNumbers == 1..(MaxPages + 1)

\* The parts of a page list: single pages and ranges a-b.
PartInputs ==
    {<<p>> : p \in PageNumbers} \cup
    {<<a, b>> \in PageNumbers \X PageNumbers : a <= b}

\* Page lists of at most MaxParts parts.
PageListInputs == UNION {[1..k -> PartInputs] : k \in 0..MaxParts}

SplitTypes == {"all", "range", "every_n", ""}

\* The sequence s, s+1, ..., e (empty when s > e).
PageRun(s, e) == [k \in 1..(e - s + 1) |-> s + k - 1]

\* The pages a page range stands for in qpdf's --pages argument.
RangePages(rg) == IF Len(rg) = 1 THEN <<rg[1]>> ELSE PageRun(rg[1], rg[2])

RECURSIVE ExpandRanges(_)
\* The pages a range list stands for, in the order qpdf emits them.
ExpandRanges(ranges) ==
    IF ranges = <<>> THEN <<>>
    ELSE RangePages(Head(ranges)) \o ExpandRanges(Tail(ranges))

\* runQPDF on an input of pageCount pages.  With the arguments
\* <in, "--pages", in, ranges, "--", out> qpdf writes the named pages, and
\* fails when a range is empty, reversed or names a page outside the input;
\* with the arguments <in, page, out> qpdf takes `page` for the output file
\* and rejects the third argument.
runQPDF(form, ranges, pageCount) ==
    IF /\ form = "pages"
       /\ ranges # <<>>
       /\ \A k \in 1..Len(ranges) :
             /\ ranges[k][1] >= 1 /\ ranges[k][Len(ranges[k])] <= pageCount
             /\ ranges[k][1] <= ranges[k][Len(ranges[k])]
    THEN [ok |-> TRUE, pdf |-> ExpandRanges(ranges)]
    ELSE [ok |-> FALSE, pdf |-> <<>>]

\* Value of `manip` while no manipulator call is followed.
NoManip ==
    [op |-> "none", pc |-> "none", pageCount |-> 0, splitType |-> "", everyN |-> 0,
     list |-> <<>>, removeSet |-> {}, i |-> 0, n |-> 0, inRange |-> FALSE,
     rangeStart |-> 0, keepRanges |-> <<>>, pages |-> <<>>, out |-> <<>>,
     err |-> "pending"]

\* ---------------------------------------------------------------------------
\* WebhookService.Send (services).  Time is counted in seconds.
\* ---------------------------------------------------------------------------

MaxRetryCount == 2

\* WebhookService.retries, set by NewWebhookService.
retries == 3

\* The webhook configurations a caller passes: nil, one with an empty URL,
\* and one with a URL.
WebhookConfigs == {"nil", "nourl", "url"}

\* Values of config.RetryCount: negative, 0 (field omitted) and positive.
RetryInputs == -1..MaxRetryCount

\* What one loop iteration meets: the request cannot be built, client.Do
\* fails, the receiver answers 2xx, or it answers another status.
AttemptOutcomes == {"badreq", "neterr", "2xx", "status"}

\* `backoff := time.Duration(attempt*attempt) * time.Second`
Backoff(attempt) == attempt * attempt

\* Value of `send` while no Send call is followed.
NoSend ==
    [config |-> "nil", RetryCount |-> 0, pc |-> "none", maxRetries |-> 0,
     attempt |-> 0, iterations |-> 0, sent |-> 0, waited |-> 0, got2xx |-> FALSE,
     cancelled |-> FALSE, cancelledWaiting |-> FALSE, ret |-> "pending"]

\* ---------------------------------------------------------------------------
\* ExtendedHandler.Batch (handlers).
\* ---------------------------------------------------------------------------

MaxBatch == 3

\* The conversion requests of a batch: a type the switch knows (two of
\* them) or not, with or without options.
BatchItems == [Type : {"html", "url", "bogus"}, Options : BOOLEAN]

\* BatchRequest.Requests of at most MaxBatch items (none included).
BatchInputs == UNION {[1..k -> BatchItems] : k \in 0..MaxBatch}

\* Value of `batch` while no batch request is followed.
NoBatch ==
    [Requests |-> <<>>, Merge |-> FALSE, processor |-> FALSE, pc |-> "none", i |-> 0,
     Total |-> 0, Completed |-> 0, Failed |-> 0, Results |-> <<>>, counted |-> <<>>,
     allPDFs |-> 0, MergedPDF |-> FALSE, status |-> 0]

\* ---------------------------------------------------------------------------
\* ExtendedHandler.Async and processAsync (handlers).
\* ---------------------------------------------------------------------------

\* The conversion types of an async request as the switch sees them.
AsyncTypes == {"html", "url", "bogus"}

\* WebhookPayload.Event of the two payload constructors.
CreateSuccessPayload == "conversion.completed"
CreateErrorPayload == "conversion.failed"

\* Value of `async` while no async request is followed.
NoAsync ==
    [validJSON |-> FALSE, Webhook |-> FALSE, Storage |-> FALSE, Type |-> "html",
     Options |-> FALSE, processor |-> FALSE,
     hpc |-> "none", status |-> 0, body |-> "",
     wpc |-> "none", err |-> "", converted |-> FALSE, processed |-> FALSE,
     uploads |-> 0, sendCalls |-> 0, payload |-> ""]

VARIABLES
    pc,                     \* position of each request in its Convert* call
    method,                 \* the converter method running each request ("none" before the call)
    callerCancelled,        \* the call's ctx argument is cancelled (tracked until chromedp.Run returns)
    workerPool,             \* len(c.workerPool)
    semaphore,              \* len(c.semaphore)
    taskCtx,                \* requests whose chromedp context is alive
    ctxOf,                  \* the chromedp context each call runs in (NoContext outside)
    err,                    \* err returned by chromedp.Run ("nil" also before it returns)
    pdf,                    \* the print step stored PDF bytes in buf / pdf
    result,                 \* what the call returned: [bytes, err], NoResult before
    totalConversions,
    successfulConversions,
    failedConversions,
    conversionsByType,      \* sync.Map: label -> count, NoEntry when absent
    current,                \* incrementMetric's local `current` (0 outside the retry loop)
    acquires,               \* history: slot acquisitions per request
    releases,               \* history: slot releases per request
    metricCalls,            \* history: completed incrementMetric calls per request
    call,                   \* one call followed from its options to its return values
    rl,                     \* the RateLimiter and the handler goroutines inside Limit
    manip,                  \* one PDFManipulator call (Split or RemovePages) and its locals
    send,                   \* one WebhookService.Send call, its locals and its context
    batch,                  \* one ExtendedHandler.Batch request, its locals and its result
    async                   \* one ExtendedHandler.Async request: the handler and its goroutine

vars == <<pc, method, callerCancelled, workerPool, semaphore, taskCtx, ctxOf, err, pdf,
          result, totalConversions, successfulConversions, failedConversions,
          conversionsByType, current, acquires, releases, metricCalls, call, rl,
          manip, send, batch, async>>

gateVars == <<workerPool, semaphore, acquires, releases>>
metricVars == <<totalConversions, successfulConversions, failedConversions,
                conversionsByType, current, metricCalls>>
runVars == <<err, pdf, result>>

\* The state of the ChromeConverter and of the calls in progress on it.
converterVars == <<pc, method, callerCancelled, taskCtx, ctxOf, gateVars, metricVars,
                   runVars>>

\* The state of the components around the converter.
serviceVars == <<call, rl, manip, send, batch, async>>

notCall == <<converterVars, rl, manip, send, batch, async>>
notLimiter == <<converterVars, call, manip, send, batch, async>>
notManip == <<converterVars, call, rl, send, batch, async>>
notSend == <<converterVars, call, rl, manip, batch, async>>
notBatch == <<converterVars, call, rl, manip, send, async>>
notAsync == <<converterVars, call, rl, manip, send, batch>>

RouteOf(r) == method[r]

\* The converter as NewChromeConverter returns it: no call in progress, both
\* channels empty, all counters zero, no per-type entry.
NewChromeConverter ==
    /\ pc = [r \in Requests |-> "idle"]
    /\ method = [r \in Requests |-> "none"]
    /\ callerCancelled = [r \in Requests |-> FALSE]
    /\ workerPool = 0
    /\ semaphore = 0
    /\ taskCtx = {}
    /\ ctxOf = [r \in Requests |-> NoContext]
    /\ err = [r \in Requests |-> "nil"]
    /\ pdf = [r \in Requests |-> FALSE]
    /\ result = [r \in Requests |-> NoResult]
    /\ totalConversions = 0
    /\ successfulConversions = 0
    /\ failedConversions = 0
    /\ conversionsByType = [l \in Labels |-> NoEntry]
    /\ current = [r \in Requests |-> 0]
    /\ acquires = [r \in Requests |-> 0]
    /\ releases = [r \in Requests |-> 0]
    /\ metricCalls = [r \in Requests |-> 0]

Init ==
    /\ NewChromeConverter
    /\ call = NoCall
    /\ rl = NoLimiter
    /\ manip = NoManip
    /\ send = NoSend
    /\ batch = NoBatch
    /\ async = NoAsync

\* A handler calls the converter method for a request of type t; the call
\* starts at the channel send that takes the slot.
Submit(r, t) ==
    /\ pc[r] = "idle"
    /\ method' = [method EXCEPT ![r] = Route(t)]
    /\ pc' = [pc EXCEPT ![r] = "acquire"]
    /\ UNCHANGED <<callerCancelled, taskCtx, ctxOf, serviceVars, gateVars, metricVars, runVars>>

\* The channel a call sends on is full: the send blocks.
GateFull(r) ==
    IF RouteOf(r) = "ConvertHTML" THEN semaphore = maxWorkers
                                  ELSE workerPool = maxWorkers

\* The caller's context is cancelled (client disconnect, caller deadline)
\* while the call is blocked on the channel send or is inside the pipeline.
CallerCancel(r) ==
    /\ pc[r] \in {"acquire", "newctx", "stalled"} \cup RunStages
    /\ pc[r] = "acquire" => GateFull(r)
    /\ ~callerCancelled[r]
    /\ callerCancelled' = [callerCancelled EXCEPT ![r] = TRUE]
    /\ UNCHANGED <<pc, method, taskCtx, ctxOf, serviceVars, gateVars, metricVars, runVars>>

\* c.workerPool <- struct{}{} : blocks while the channel is full.
acquireWorker(r) ==
    /\ pc[r] = "acquire"
    /\ RouteOf(r) \in {"ConvertURL", "ConvertImages"}
    /\ workerPool < maxWorkers
    /\ workerPool' = workerPool + 1
    /\ acquires' = [acquires EXCEPT ![r] = @ + 1]
    /\ pc' = [pc EXCEPT ![r] = "newctx"]
    /\ UNCHANGED <<method, callerCancelled, taskCtx, ctxOf, serviceVars, semaphore, releases,
                   metricVars, runVars>>

\* c.semaphore <- struct{}{} in ConvertHTML.
acquireSemaphore(r) ==
    /\ pc[r] = "acquire"
    /\ RouteOf(r) = "ConvertHTML"
    /\ semaphore < maxWorkers
    /\ semaphore' = semaphore + 1
    /\ acquires' = [acquires EXCEPT ![r] = @ + 1]
    /\ pc' = [pc EXCEPT ![r] = "newctx"]
    /\ UNCHANGED <<method, callerCancelled, taskCtx, ctxOf, serviceVars, workerPool, releases,
                   metricVars, runVars>>

\* Variant of NewContext in which every call runs in one context kept by the
\* converter instead of deriving its own.
NewContext_Shared(r) ==
    /\ pc[r] = "newctx"
    /\ taskCtx' = taskCtx \cup {r}
    /\ ctxOf' = [ctxOf EXCEPT ![r] = 1]
    /\ pc' = [pc EXCEPT ![r] = Stages(RouteOf(r))[1]]
    /\ UNCHANGED <<method, callerCancelled, serviceVars, gateVars, metricVars, runVars>>

\* chromedp.NewContext(c.allocCtx) and context.WithTimeout: the task context
\* is alive and the deadline is armed; chromedp.Run starts at the first stage.
NewContext(r) ==
    /\ pc[r] = "newctx"
    /\ taskCtx' = taskCtx \cup {r}
    /\ ctxOf' = [ctxOf EXCEPT ![r] = r]
    /\ pc' = [pc EXCEPT ![r] = Stages(RouteOf(r))[1]]
    /\ UNCHANGED <<method, callerCancelled, serviceVars, gateVars, metricVars, runVars>>

StageIndex(route, s) == CHOOSE i \in 1..Len(Stages(route)) : Stages(route)[i] = s

\* Where a call continues once chromedp.Run has returned: ConvertHTML goes
\* straight to `return buf, err`, the others call incrementMetric first.
AfterRun(route) == IF route = "ConvertHTML" THEN "defer_cancel" ELSE "inc_total"

\* Where a call continues once incrementMetric has returned: the deferred
\* functions of ConvertURL / ConvertImages, or nothing more for MergePDFs.
AfterMetric(route) == IF route = "MergePDFs" THEN "done" ELSE "defer_cancel"

\* Variant of ReturnValue that hands back whatever is in the buffer together
\* with the error, and treats a buffer as filled as soon as Run was cut short.
ReturnValue_Partial(route, e, bytes) ==
    [bytes |-> bytes \/ e = "timeout", err |-> e]

\* The values a call returns given Run's err and the bytes it stored.
\* ConvertHTML returns (buf, err); ConvertURL and ConvertImages return
\* (nil, wrapped err) on failure and (pdf, nil) on success.
ReturnValue(route, e, bytes) ==
    IF route = "ConvertHTML"
    THEN [bytes |-> bytes, err |-> e]
    ELSE IF e # "nil" THEN [bytes |-> FALSE, err |-> e]
                      ELSE [bytes |-> bytes, err |-> "nil"]

\* chromedp.Run left with error e (or with nil after the print step).
RunReturns(r, e, bytes) ==
    /\ err' = [err EXCEPT ![r] = e]
    /\ callerCancelled' = [callerCancelled EXCEPT ![r] = FALSE]
    /\ pdf' = [pdf EXCEPT ![r] = bytes]
    /\ pc' = [pc EXCEPT ![r] = AfterRun(RouteOf(r))]
    /\ result' = IF RouteOf(r) = "ConvertHTML"
                 THEN [result EXCEPT ![r] = ReturnValue(RouteOf(r), e, bytes)]
                 ELSE result

\* The current stage completes; after the print step Run returns nil.
StageOk(r) ==
    /\ pc[r] \in RunStages
    /\ LET route == RouteOf(r)
           i == StageIndex(route, pc[r])
       IN IF i < Len(Stages(route))
          THEN /\ pc' = [pc EXCEPT ![r] = Stages(route)[i + 1]]
               /\ UNCHANGED <<runVars, callerCancelled>>
          ELSE RunReturns(r, "nil", TRUE)
    /\ UNCHANGED <<method, taskCtx, ctxOf, serviceVars, gateVars, metricVars>>

\* Variant of StageFail with an internal retry: a failed stage restarts the
\* action list instead of ending chromedp.Run.
StageFail_Retry(r) ==
    /\ pc[r] \in RunStages
    /\ pc' = [pc EXCEPT ![r] = Stages(RouteOf(r))[1]]
    /\ UNCHANGED <<method, callerCancelled, taskCtx, ctxOf, serviceVars, gateVars, metricVars, runVars>>

\* The current stage fails (navigation error, injection error, print error).
StageFail(r) ==
    /\ pc[r] \in RunStages
    /\ RunReturns(r, "fail", FALSE)
    /\ UNCHANGED <<method, taskCtx, ctxOf, serviceVars, gateVars, metricVars>>

\* The content source never becomes ready: the stage cannot complete.
Stall(r) ==
    /\ pc[r] \in StallableStages
    /\ pc' = [pc EXCEPT ![r] = "stalled"]
    /\ UNCHANGED <<method, callerCancelled, taskCtx, ctxOf, serviceVars, gateVars, metricVars, runVars>>

\* Variant of Deadline for a pipeline run without context.WithTimeout: no
\* timer exists, so the step never happens.
Deadline_NoTimeout(r) ==
    /\ pc[r] \in RunStages \cup {"stalled"}
    /\ FALSE
    /\ UNCHANGED vars

\* The context.WithTimeout deadline fires while Run is executing.
Deadline(r) ==
    /\ pc[r] \in RunStages \cup {"stalled"}
    /\ RunReturns(r, "timeout", FALSE)
    /\ UNCHANGED <<method, taskCtx, ctxOf, serviceVars, gateVars, metricVars>>

\* A panic inside an ActionFunc closure unwinds the call: only the deferred
\* functions run, nothing is returned.
StagePanic(r) ==
    /\ pc[r] \in ActionFuncStages
    /\ err' = [err EXCEPT ![r] = "panic"]
    /\ callerCancelled' = [callerCancelled EXCEPT ![r] = FALSE]
    /\ pc' = [pc EXCEPT ![r] = "defer_cancel"]
    /\ UNCHANGED <<method, taskCtx, ctxOf, serviceVars, gateVars, metricVars, pdf, result>>

\* MergePDFs: a placeholder that counts a failed "merge" conversion and
\* returns an error; it takes no slot and creates no context.
MergePDFs(r) ==
    /\ pc[r] = "idle"
    /\ method' = [method EXCEPT ![r] = "MergePDFs"]
    /\ err' = [err EXCEPT ![r] = "fail"]
    /\ pc' = [pc EXCEPT ![r] = "inc_total"]
    /\ UNCHANGED <<callerCancelled, taskCtx, ctxOf, serviceVars, gateVars, metricVars, pdf, result>>

\* Variant of incrementMetric that counts the outcome first and the total
\* last: this step counts the outcome where IncTotal counts the total.
IncTotal_OutcomeFirst(r) ==
    /\ pc[r] = "inc_total"
    /\ IF err[r] = "nil"
       THEN /\ successfulConversions' = successfulConversions + 1
            /\ UNCHANGED failedConversions
       ELSE /\ failedConversions' = failedConversions + 1
            /\ UNCHANGED successfulConversions
    /\ pc' = [pc EXCEPT ![r] = "inc_outcome"]
    /\ UNCHANGED <<method, callerCancelled, taskCtx, ctxOf, serviceVars, gateVars, runVars,
                   totalConversions, conversionsByType, current, metricCalls>>

\* incrementMetric: atomic.AddInt64(&c.totalConversions, 1)
IncTotal(r) ==
    /\ pc[r] = "inc_total"
    /\ totalConversions' = totalConversions + 1
    /\ pc' = [pc EXCEPT ![r] = "inc_outcome"]
    /\ UNCHANGED <<method, callerCancelled, taskCtx, ctxOf, serviceVars, gateVars, runVars,
                   successfulConversions, failedConversions, conversionsByType,
                   current, metricCalls>>

\* incrementMetric: success ? successfulConversions++ : failedConversions++
IncOutcome(r) ==
    /\ pc[r] = "inc_outcome"
    /\ IF err[r] = "nil"
       THEN /\ successfulConversions' = successfulConversions + 1
            /\ UNCHANGED failedConversions
       ELSE /\ failedConversions' = failedConversions + 1
            /\ UNCHANGED successfulConversions
    /\ pc' = [pc EXCEPT ![r] = "inc_load"]
    /\ UNCHANGED <<method, callerCancelled, taskCtx, ctxOf, serviceVars, gateVars, runVars,
                   totalConversions, conversionsByType, current, metricCalls>>

\* Variant of LoadOrStore that is a plain Store(convType, 0) followed by a
\* Load: an existing counter is reset on every call.
LoadOrStore_Reset(r) ==
    /\ pc[r] = "inc_load"
    /\ LET l == MetricLabel(RouteOf(r))
       IN /\ conversionsByType' = [conversionsByType EXCEPT ![l] = 0]
          /\ current' = [current EXCEPT ![r] = 0]
    /\ pc' = [pc EXCEPT ![r] = "inc_cas"]
    /\ UNCHANGED <<method, callerCancelled, taskCtx, ctxOf, serviceVars, gateVars, runVars,
                   totalConversions, successfulConversions, failedConversions,
                   metricCalls>>

\* incrementMetric: val, _ := c.conversionsByType.LoadOrStore(convType, 0)
LoadOrStore(r) ==
    /\ pc[r] = "inc_load"
    /\ LET l == MetricLabel(RouteOf(r))
           stored == IF conversionsByType[l] = NoEntry THEN 0 ELSE conversionsByType[l]
       IN /\ conversionsByType' = [conversionsByType EXCEPT ![l] = stored]
          /\ current' = [current EXCEPT ![r] = stored]
    /\ pc' = [pc EXCEPT ![r] = "inc_cas"]
    /\ UNCHANGED <<method, callerCancelled, taskCtx, ctxOf, serviceVars, gateVars, runVars,
                   totalConversions, successfulConversions, failedConversions,
                   metricCalls>>

\* Variant of CompareAndSwap that is a plain Store(convType, current+1): the
\* read-modify-write is no longer atomic.
CompareAndSwap_Store(r) ==
    /\ pc[r] = "inc_cas"
    /\ LET l == MetricLabel(RouteOf(r))
       IN /\ conversionsByType' = [conversionsByType EXCEPT ![l] = current[r] + 1]
          /\ metricCalls' = [metricCalls EXCEPT ![r] = @ + 1]
          /\ current' = [current EXCEPT ![r] = 0]
          /\ result' = [result EXCEPT ![r] = [bytes |-> err[r] = "nil" /\ pdf[r],
                                               err |-> err[r]]]
          /\ pc' = [pc EXCEPT ![r] = IF RouteOf(r) = "MergePDFs" THEN "done"
                                                                ELSE "defer_cancel"]
    /\ UNCHANGED <<method, callerCancelled, taskCtx, ctxOf, serviceVars, gateVars, err, pdf,
                   totalConversions, successfulConversions, failedConversions>>

\* incrementMetric: CompareAndSwap(convType, current, current+1); on success
\* the loop ends, incrementMetric returns and the call computes its result.
CompareAndSwap(r) ==
    /\ pc[r] = "inc_cas"
    /\ LET l == MetricLabel(RouteOf(r))
       IN \/ /\ conversionsByType[l] = current[r]
             /\ conversionsByType' = [conversionsByType EXCEPT ![l] = current[r] + 1]
             /\ metricCalls' = [metricCalls EXCEPT ![r] = @ + 1]
             /\ current' = [current EXCEPT ![r] = 0]
             /\ result' = [result EXCEPT ![r] = ReturnValue(RouteOf(r), err[r], pdf[r])]
             /\ pc' = [pc EXCEPT ![r] = AfterMetric(RouteOf(r))]
          \/ /\ conversionsByType[l] # current[r]
             /\ pc' = [pc EXCEPT ![r] = "inc_load"]
             /\ UNCHANGED <<conversionsByType, metricCalls, result, current>>
    /\ UNCHANGED <<method, callerCancelled, taskCtx, ctxOf, serviceVars, gateVars, err, pdf,
                   totalConversions, successfulConversions, failedConversions>>

\* Variant of DeferCancel in which the cancel functions are never deferred:
\* the call goes on to release its slot with the context still alive.
DeferCancel_Leak(r) ==
    /\ pc[r] = "defer_cancel"
    /\ pc' = [pc EXCEPT ![r] = "defer_release"]
    /\ UNCHANGED <<method, callerCancelled, taskCtx, ctxOf, serviceVars, gateVars, metricVars, runVars>>

\* The two deferred cancel() calls: the task context is torn down.
DeferCancel(r) ==
    /\ pc[r] = "defer_cancel"
    /\ taskCtx' = taskCtx \ {r}
    /\ ctxOf' = [ctxOf EXCEPT ![r] = NoContext]
    /\ pc' = [pc EXCEPT ![r] = "defer_release"]
    /\ UNCHANGED <<method, callerCancelled, serviceVars, gateVars, metricVars, runVars>>

\* Variant of releaseWorker that is an explicit call on the success path
\* instead of a deferred one: when Run failed the slot is never given back.
releaseWorker_SkipOnError(r) ==
    /\ pc[r] = "defer_release"
    /\ RouteOf(r) \in {"ConvertURL", "ConvertImages"}
    /\ IF err[r] = "nil"
       THEN /\ workerPool' = workerPool - 1
            /\ releases' = [releases EXCEPT ![r] = @ + 1]
       ELSE UNCHANGED <<workerPool, releases>>
    /\ pc' = [pc EXCEPT ![r] = "done"]
    /\ UNCHANGED <<method, callerCancelled, taskCtx, ctxOf, serviceVars, semaphore, acquires,
                   metricVars, runVars>>

\* defer c.releaseWorker(): <-c.workerPool
releaseWorker(r) ==
    /\ pc[r] = "defer_release"
    /\ RouteOf(r) \in {"ConvertURL", "ConvertImages"}
    /\ workerPool' = workerPool - 1
    /\ releases' = [releases EXCEPT ![r] = @ + 1]
    /\ pc' = [pc EXCEPT ![r] = "done"]
    /\ UNCHANGED <<method, callerCancelled, taskCtx, ctxOf, serviceVars, semaphore, acquires,
                   metricVars, runVars>>

\* defer func() { <-c.semaphore }() in ConvertHTML
releaseSemaphore(r) ==
    /\ pc[r] = "defer_release"
    /\ RouteOf(r) = "ConvertHTML"
    /\ semaphore' = semaphore - 1
    /\ releases' = [releases EXCEPT ![r] = @ + 1]
    /\ pc' = [pc EXCEPT ![r] = "done"]
    /\ UNCHANGED <<method, callerCancelled, taskCtx, ctxOf, serviceVars, workerPool, acquires,
                   metricVars, runVars>>

Next ==
    \E r \in Requests :
        \/ \E t \in ConvTypes : Submit(r, t)
        \/ CallerCancel(r)
        \/ acquireWorker(r)
        \/ acquireSemaphore(r)
        \/ NewContext(r)
        \/ StageOk(r)
        \/ StageFail(r)
        \/ Stall(r)
        \/ Deadline(r)
        \/ StagePanic(r)
        \/ MergePDFs(r)
        \/ IncTotal(r)
        \/ IncOutcome(r)
        \/ LoadOrStore(r)
        \/ CompareAndSwap(r)
        \/ DeferCancel(r)
        \/ releaseWorker(r)
        \/ releaseSemaphore(r)

Spec == Init /\ [][Next]_vars

\* The steps of a call that the Go scheduler and the wall clock drive: a
\* runnable goroutine runs, a send on a channel with room completes, and a
\* stage of chromedp.Run either completes or is cut by the deadline timer.
Progress(r) ==
    \/ acquireWorker(r)
    \/ acquireSemaphore(r)
    \/ NewContext(r)
    \/ StageOk(r)
    \/ Deadline(r)
    \/ IncTotal(r)
    \/ IncOutcome(r)
    \/ LoadOrStore(r)
    \/ CompareAndSwap(r)
    \/ DeferCancel(r)
    \/ releaseWorker(r)
    \/ releaseSemaphore(r)

\* The program under fair scheduling.  The cancellation of the caller's
\* context is left out of it: no step of the converter reads ctx, so it
\* changes neither the program's variables nor which steps are enabled.
NextFair ==
    \E r \in Requests :
        \/ \E t \in ConvTypes : Submit(r, t)
        \/ MergePDFs(r)
        \/ StageFail(r)
        \/ Stall(r)
        \/ StagePanic(r)
        \/ Progress(r)

FairSpec == Init /\ [][NextFair]_vars /\ \A r \in Requests : WF_vars(Progress(r))

\* GetWorkerStatus: computed from len(c.workerPool).
\* ---------------------------------------------------------------------------
\* One call followed from its options to its return values.
\* ---------------------------------------------------------------------------

\* What a method returns when chromedp.Run ends with e.  manipulator.go's
\* ConvertURL discards the bytes of PrintToPDF and returns its never
\* assigned buf; the others return as ReturnValue says, the print step
\* having stored bytes exactly when Run returned nil.
CallReturn(fn, e) ==
    IF fn = "manipulator.ConvertURL"
    THEN [bytes |-> FALSE, err |-> e]
    ELSE ReturnValue(fn, e, e = "nil")

\* A converter with no call in progress receives one call of method fn with
\* options o.
CallInit ==
    /\ NewChromeConverter
    /\ rl = NoLimiter
    /\ manip = NoManip
    /\ send = NoSend
    /\ batch = NoBatch
    /\ async = NoAsync
    /\ call \in {[fn |-> f, opts |-> o, step |-> "entry", params |-> PrintToPDF,
                  settle |-> 0, deadline |-> 0, ret |-> NoResult] :
                     f \in CallVariants, o \in OptionInputs}

\* The statements before chromedp.Run: defaults, dimensions, margins and
\* scale are fixed, and with them the parameters of the print step.
BuildPrintParams ==
    /\ call.step = "entry"
    /\ call' = [call EXCEPT !.step = "run",
                            !.params = PrintParams(call.fn, call.opts),
                            !.settle = SettleDelay(call.fn),
                            !.deadline = Timeout(call.fn)]
    /\ UNCHANGED notCall

\* chromedp.Run ends with e and the method returns.
RunAndReturn(e) ==
    /\ call.step = "run"
    /\ call' = [call EXCEPT !.step = "returned", !.ret = CallReturn(call.fn, e)]
    /\ UNCHANGED notCall

CallNext ==
    \/ BuildPrintParams
    \/ \E e \in {"nil", "fail", "timeout"} : RunAndReturn(e)

CallSpec == CallInit /\ [][CallNext]_vars

\* ---------------------------------------------------------------------------
\* RateLimiter.Limit: the handler runs in one goroutine per request and the
\* RateLimiter has no lock, so the read of rl.requests[ip] and the write
\* back are separate steps that other goroutines interleave with.
\* ---------------------------------------------------------------------------

\* NewRateLimiter(limit, time.Minute): an empty map; no request received.
LimitInit ==
    /\ NewChromeConverter
    /\ call = NoCall
    /\ manip = NoManip
    /\ send = NoSend
    /\ batch = NoBatch
    /\ async = NoAsync
    /\ rl \in {[NoLimiter EXCEPT !.limit = l, !.on = TRUE] : l \in LimitInputs}

\* The entries of a slice of times still inside the window at time now:
\* `if now.Sub(t) < rl.window { valid = append(valid, t) }`.
ValidAt(times, now) ==
    LET InWindow(t) == now - t < Window
    IN SelectSeq(times, InWindow)

\* next.ServeHTTP for the request of goroutine h from address a, which
\* entered the handler at time t.
Forward(h, a, t) == rl.forwarded \cup {[conn |-> h, ip |-> a, at |-> t]}

\* A request from address a enters the handler in goroutine h.  With
\* limit <= 0 it is forwarded at once; otherwise the goroutine takes
\* time.Now() and filters rl.requests[ip] into its local slice `valid`.
LimitEnter(h, a) ==
    /\ rl.on /\ ~rl.fatal
    /\ rl.conn[h].pc = "idle"
    /\ IF rl.limit <= 0
       THEN rl' = [rl EXCEPT !.conn[h] = [IdleConn EXCEPT !.pc = "forwarded", !.ip = a],
                             !.forwarded = Forward(h, a, rl.clock)]
       ELSE rl' = [rl EXCEPT !.conn[h] =
                       [pc |-> "check", ip |-> a, now |-> rl.clock,
                        valid |-> ValidAt(rl.requests[a], rl.clock)]]
    /\ UNCHANGED notLimiter

\* `if len(valid) >= rl.limit`: answer 429 and return.
LimitReject(h) ==
    /\ rl.on /\ ~rl.fatal
    /\ rl.conn[h].pc = "check"
    /\ Len(rl.conn[h].valid) >= rl.limit
    /\ rl' = [rl EXCEPT !.conn[h].pc = "rejected"]
    /\ UNCHANGED notLimiter

\* `rl.requests[ip] = append(valid, now); next.ServeHTTP(w, r)`.
LimitForward(h) ==
    /\ rl.on /\ ~rl.fatal
    /\ rl.conn[h].pc = "check"
    /\ Len(rl.conn[h].valid) < rl.limit
    /\ LET c == rl.conn[h]
       IN rl' = [rl EXCEPT !.requests[c.ip] = Append(c.valid, c.now),
                           !.conn[h].pc = "forwarded",
                           !.forwarded = Forward(h, c.ip, c.now)]
    /\ UNCHANGED notLimiter

\* Two goroutines are between their read of the map and their write back:
\* the unsynchronised map accesses are a data race, and one outcome is the
\* runtime's fatal error "concurrent map writes", which ends the process.
LimitRaceFatal ==
    /\ rl.on /\ ~rl.fatal
    /\ \E h, k \in Conns : h # k /\ rl.conn[h].pc = "check" /\ rl.conn[k].pc = "check"
    /\ rl' = [rl EXCEPT !.fatal = TRUE]
    /\ UNCHANGED notLimiter

\* Time passes.
LimitTick ==
    /\ rl.on /\ ~rl.fatal
    /\ rl.clock < MaxTime
    /\ rl' = [rl EXCEPT !.clock = rl.clock + 1]
    /\ UNCHANGED notLimiter

LimitNext ==
    \/ \E h \in Conns, a \in Addrs : LimitEnter(h, a)
    \/ \E h \in Conns : LimitReject(h)
    \/ \E h \in Conns : LimitForward(h)
    \/ LimitRaceFatal
    \/ LimitTick

LimitSpec == LimitInit /\ [][LimitNext]_vars

\* ---------------------------------------------------------------------------
\* PDFManipulator.Split and PDFManipulator.RemovePages, one loop iteration
\* per step.
\* ---------------------------------------------------------------------------

\* A Split request (split type, every_n, page list) or a RemovePages request
\* (page list) on an input of pageCount pages, after getPageCount.
ManipInit ==
    /\ NewChromeConverter
    /\ call = NoCall
    /\ rl = NoLimiter
    /\ send = NoSend
    /\ batch = NoBatch
    /\ async = NoAsync
    /\ manip \in
          {[NoManip EXCEPT !.op = "Split", !.pc = "start", !.pageCount = c,
                           !.splitType = t, !.everyN = n, !.list = l] :
               c \in 0..MaxPages, t \in SplitTypes, n \in -1..(MaxPages + 1),
               l \in {q \in PageListInputs : Len(q) <= 1}}
          \cup
          {[NoManip EXCEPT !.op = "RemovePages", !.pc = "start", !.pageCount = c,
                           !.list = l] :
               c \in 0..MaxPages, l \in PageListInputs}

\* Split returns (&SplitResult{Pages: pages, Count: len(pages)}, nil).
SplitResult(m) == [m EXCEPT !.pc = "returned", !.err = "nil"]

\* Split returns (nil, err) because runQPDF failed.
SplitError(m) == [m EXCEPT !.pc = "returned", !.err = "qpdf", !.pages = <<>>]

\* `switch req.SplitType`: the loop variables of the chosen case; a type
\* that matches no case returns an empty result.
SplitSwitch ==
    /\ manip.op = "Split" /\ manip.pc = "start"
    /\ manip' =
         CASE manip.splitType = "all"     -> [manip EXCEPT !.pc = "all", !.i = 1]
           [] manip.splitType = "range"   -> [manip EXCEPT !.pc = "range", !.i = 1]
           [] manip.splitType = "every_n" ->
                [manip EXCEPT !.pc = "every_n", !.i = 1,
                              !.n = IF manip.everyN <= 0 THEN 1 ELSE manip.everyN]
           [] OTHER -> SplitResult(manip)
    /\ UNCHANGED notManip

\* One iteration of `for i := 1; i <= pageCount; i++` of case "all":
\* runQPDF(inputPath, i, outputPath).
SplitAll ==
    /\ manip.op = "Split" /\ manip.pc = "all"
    /\ manip' =
         IF manip.i > manip.pageCount THEN SplitResult(manip)
         ELSE LET q == runQPDF("positional", <<<<manip.i>>>>, manip.pageCount)
              IN IF q.ok
                 THEN [manip EXCEPT !.pages = Append(manip.pages, q.pdf),
                                    !.i = manip.i + 1]
                 ELSE SplitError(manip)
    /\ UNCHANGED notManip

\* One iteration of `for i, r := range ranges` of case "range":
\* runQPDF(inputPath, "--pages", inputPath, r, "--", outputPath).
SplitRange ==
    /\ manip.op = "Split" /\ manip.pc = "range"
    /\ manip' =
         IF manip.i > Len(manip.list) THEN SplitResult(manip)
         ELSE LET q == runQPDF("pages", <<manip.list[manip.i]>>, manip.pageCount)
              IN IF q.ok
                 THEN [manip EXCEPT !.pages = Append(manip.pages, q.pdf),
                                    !.i = manip.i + 1]
                 ELSE SplitError(manip)
    /\ UNCHANGED notManip

\* One iteration of `for start := 1; start <= pageCount; start += n` of
\* case "every_n" (manip.i is `start`).
SplitEveryN ==
    /\ manip.op = "Split" /\ manip.pc = "every_n"
    /\ manip' =
         IF manip.i > manip.pageCount THEN SplitResult(manip)
         ELSE LET start == manip.i
                  end   == IF start + manip.n - 1 > manip.pageCount
                           THEN manip.pageCount ELSE start + manip.n - 1
                  q     == runQPDF("pages", <<<<start, end>>>>, manip.pageCount)
              IN IF q.ok
                 THEN [manip EXCEPT !.pages = Append(manip.pages, q.pdf),
                                    !.i = start + manip.n]
                 ELSE SplitError(manip)
    /\ UNCHANGED notManip

\* The pages a part of pagesToRemove adds to removeSet: every page of a-b
\* for a part holding "-", the page itself otherwise.
PartPages(part) == IF Len(part) = 2 THEN part[1]..part[2] ELSE {part[1]}

\* RemovePages: `removeSet` built from the parts of pagesToRemove, and the
\* locals of the keep-range loop initialised.
RemoveParse ==
    /\ manip.op = "RemovePages" /\ manip.pc = "start"
    /\ manip' = [manip EXCEPT
                    !.removeSet = UNION {PartPages(manip.list[k]) : k \in 1..Len(manip.list)},
                    !.pc = "scan", !.i = 1, !.inRange = FALSE, !.rangeStart = 0]
    /\ UNCHANGED notManip

\* The keep range rangeStart..last as RemovePages formats it: "%d" for one
\* page, "%d-%d" otherwise.
KeepRange(rangeStart, last) ==
    IF rangeStart = last THEN <<rangeStart>> ELSE <<rangeStart, last>>

\* Variant of RemoveScan that closes a run of kept pages at i, the first
\* removed page, instead of at i-1.
RemoveScan_CloseAtI ==
    /\ manip.op = "RemovePages" /\ manip.pc = "scan"
    /\ manip.i <= manip.pageCount
    /\ manip' =
         IF manip.i \notin manip.removeSet
         THEN IF ~manip.inRange
              THEN [manip EXCEPT !.rangeStart = manip.i, !.inRange = TRUE,
                                 !.i = manip.i + 1]
              ELSE [manip EXCEPT !.i = manip.i + 1]
         ELSE IF manip.inRange
              THEN [manip EXCEPT
                      !.keepRanges = Append(manip.keepRanges,
                                            KeepRange(manip.rangeStart, manip.i)),
                      !.inRange = FALSE, !.i = manip.i + 1]
              ELSE [manip EXCEPT !.i = manip.i + 1]
    /\ UNCHANGED notManip

\* One iteration of `for i := 1; i <= pageCount; i++`: a kept page opens a
\* run if none is open; a removed page closes the open run at i-1.
RemoveScan ==
    /\ manip.op = "RemovePages" /\ manip.pc = "scan"
    /\ manip.i <= manip.pageCount
    /\ manip' =
         IF manip.i \notin manip.removeSet
         THEN IF ~manip.inRange
              THEN [manip EXCEPT !.rangeStart = manip.i, !.inRange = TRUE,
                                 !.i = manip.i + 1]
              ELSE [manip EXCEPT !.i = manip.i + 1]
         ELSE IF manip.inRange
              THEN [manip EXCEPT
                      !.keepRanges = Append(manip.keepRanges,
                                            KeepRange(manip.rangeStart, manip.i - 1)),
                      !.inRange = FALSE, !.i = manip.i + 1]
              ELSE [manip EXCEPT !.i = manip.i + 1]
    /\ UNCHANGED notManip

\* After the loop: the run still open is closed at pageCount.
RemoveClose ==
    /\ manip.op = "RemovePages" /\ manip.pc = "scan"
    /\ manip.i > manip.pageCount
    /\ manip' =
         IF manip.inRange
         THEN [manip EXCEPT
                 !.keepRanges = Append(manip.keepRanges,
                                       KeepRange(manip.rangeStart, manip.pageCount)),
                 !.inRange = FALSE, !.pc = "run"]
         ELSE [manip EXCEPT !.pc = "run"]
    /\ UNCHANGED notManip

\* `if len(keepRanges) == 0` fails with "cannot remove all pages"; otherwise
\* runQPDF(inputPath, "--pages", inputPath, keepStr, "--", outputPath) and
\* the output file is returned.
RemoveRun ==
    /\ manip.op = "RemovePages" /\ manip.pc = "run"
    /\ manip' =
         IF Len(manip.keepRanges) = 0
         THEN [manip EXCEPT !.pc = "returned", !.err = "cannot remove all pages"]
         ELSE LET q == runQPDF("pages", manip.keepRanges, manip.pageCount)
              IN IF q.ok
                 THEN [manip EXCEPT !.pc = "returned", !.err = "nil", !.out = q.pdf]
                 ELSE [manip EXCEPT !.pc = "returned", !.err = "qpdf"]
    /\ UNCHANGED notManip

ManipNext ==
    \/ SplitSwitch
    \/ SplitAll
    \/ SplitRange
    \/ SplitEveryN
    \/ RemoveParse
    \/ RemoveScan
    \/ RemoveClose
    \/ RemoveRun

ManipSpec == ManipInit /\ [][ManipNext]_vars

\* ---------------------------------------------------------------------------
\* WebhookService.Send: the retry loop, one iteration per step, and the
\* select between ctx.Done() and time.After(backoff).
\* ---------------------------------------------------------------------------

\* Send(ctx, config, payload) is called.
SendInit ==
    /\ NewChromeConverter
    /\ call = NoCall
    /\ rl = NoLimiter
    /\ manip = NoManip
    /\ batch = NoBatch
    /\ async = NoAsync
    /\ send \in {[NoSend EXCEPT !.config = c, !.RetryCount = n, !.pc = "start"] :
                     c \in WebhookConfigs, n \in RetryInputs}

\* The statements before the loop: nil config or empty URL returns nil;
\* otherwise maxRetries is config.RetryCount, or s.retries when that is <= 0.
SendEnter ==
    /\ send.pc = "start"
    /\ send' = IF send.config \in {"nil", "nourl"}
               THEN [send EXCEPT !.pc = "returned", !.ret = "nil"]
               ELSE [send EXCEPT !.pc = "attempt", !.attempt = 0,
                                 !.maxRetries = IF send.RetryCount <= 0 THEN retries
                                                ELSE send.RetryCount]
    /\ UNCHANGED notSend

\* The caller's context is cancelled (or its deadline passes).
SendCancel ==
    /\ send.pc \in {"attempt", "backoff"}
    /\ ~send.cancelled
    /\ send' = [send EXCEPT !.cancelled = TRUE,
                            !.cancelledWaiting = send.pc = "backoff" /\
                                                 send.waited < Backoff(send.attempt)]
    /\ UNCHANGED notSend

\* Where the loop goes after a failed iteration: `attempt++`, then the
\* backoff of the next iteration, or the final error when attempt was
\* maxRetries.
AfterFailure(m) ==
    IF m.attempt >= m.maxRetries
    THEN [m EXCEPT !.pc = "returned", !.ret = "failed"]
    ELSE [m EXCEPT !.attempt = m.attempt + 1, !.pc = "backoff", !.waited = 0]

\* Variant of SendAttempt with the loop condition `attempt < maxRetries`.
SendAttempt_OneLess(o) ==
    /\ send.pc = "attempt"
    /\ send.cancelled => o \in {"badreq", "neterr"}
    /\ LET m == [send EXCEPT !.iterations = send.iterations + 1,
                             !.sent = IF o = "badreq" THEN send.sent ELSE send.sent + 1]
       IN send' = IF o = "2xx"
                  THEN [m EXCEPT !.pc = "returned", !.ret = "nil", !.got2xx = TRUE]
                  ELSE IF m.attempt + 1 >= m.maxRetries
                       THEN [m EXCEPT !.pc = "returned", !.ret = "failed"]
                       ELSE [m EXCEPT !.attempt = m.attempt + 1, !.pc = "backoff",
                                      !.waited = 0]
    /\ UNCHANGED notSend

\* One loop iteration after its backoff: the request is built and sent with
\* outcome o.  A 2xx answer returns nil; anything else sets lastErr and
\* continues.  With the context cancelled client.Do fails.
SendAttempt(o) ==
    /\ send.pc = "attempt"
    /\ send.cancelled => o \in {"badreq", "neterr"}
    /\ LET m == [send EXCEPT !.iterations = send.iterations + 1,
                             !.sent = IF o = "badreq" THEN send.sent ELSE send.sent + 1]
       IN send' = IF o = "2xx"
                  THEN [m EXCEPT !.pc = "returned", !.ret = "nil", !.got2xx = TRUE]
                  ELSE AfterFailure(m)
    /\ UNCHANGED notSend

\* A second passes while Send is blocked in the select with neither case
\* ready.
SendWait ==
    /\ send.pc = "backoff"
    /\ ~send.cancelled
    /\ send.waited < Backoff(send.attempt)
    /\ send' = [send EXCEPT !.waited = send.waited + 1]
    /\ UNCHANGED notSend

\* `case <-time.After(backoff):` the timer has fired.
SendBackoffDone ==
    /\ send.pc = "backoff"
    /\ send.waited = Backoff(send.attempt)
    /\ send' = [send EXCEPT !.pc = "attempt"]
    /\ UNCHANGED notSend

\* Variant of SendCtxDone without the ctx.Done() case: the cancelled wait
\* ends and the loop goes on with the next attempt.
SendCtxDone_Ignored ==
    /\ send.pc = "backoff"
    /\ send.cancelled
    /\ send' = [send EXCEPT !.pc = "attempt"]
    /\ UNCHANGED notSend

\* `case <-ctx.Done(): return ctx.Err()`
SendCtxDone ==
    /\ send.pc = "backoff"
    /\ send.cancelled
    /\ send' = [send EXCEPT !.pc = "returned", !.ret = "ctx"]
    /\ UNCHANGED notSend

SendNext ==
    \/ SendEnter
    \/ SendCancel
    \/ \E o \in AttemptOutcomes : SendAttempt(o)
    \/ SendWait
    \/ SendBackoffDone
    \/ SendCtxDone

SendSpec == SendInit /\ [][SendNext]_vars

\* ---------------------------------------------------------------------------
\* ExtendedHandler.Batch: one item of the loop per step.
\* ---------------------------------------------------------------------------

\* A decoded BatchRequest reaches the handler; h.processor is set or nil.
BatchInit ==
    /\ NewChromeConverter
    /\ call = NoCall
    /\ rl = NoLimiter
    /\ manip = NoManip
    /\ send = NoSend
    /\ async = NoAsync
    /\ batch \in {[NoBatch EXCEPT !.Requests = q, !.Merge = m, !.processor = p,
                                   !.pc = "start"] :
                      q \in BatchInputs, m \in BOOLEAN, p \in BOOLEAN}

\* An empty batch is answered with 400; otherwise the result is created
\* with Total = len(req.Requests) and the loop starts.
BatchStart ==
    /\ batch.pc = "start"
    /\ batch' = IF Len(batch.Requests) = 0
                THEN [batch EXCEPT !.pc = "responded", !.status = 400]
                ELSE [batch EXCEPT !.pc = "loop", !.i = 0,
                                   !.Total = Len(batch.Requests)]
    /\ UNCHANGED notBatch

\* The loop body's effect on the result for item i (zero-based), given
\* whether the item failed: one BatchItemResult appended, one of Failed and
\* Completed raised.
ItemDone(b, failed) ==
    [b EXCEPT !.Results = Append(b.Results, [Index |-> b.i, Success |-> ~failed]),
              !.counted = Append(b.counted, ~failed),
              !.Failed = IF failed THEN b.Failed + 1 ELSE b.Failed,
              !.Completed = IF failed THEN b.Completed ELSE b.Completed + 1,
              !.allPDFs = IF failed THEN b.allPDFs ELSE b.allPDFs + 1,
              !.i = b.i + 1]

\* Variant of BatchItem that leaves the loop at the first failing item.
BatchItem_StopAtFailure(convOk, procOk) ==
    /\ batch.pc = "loop" /\ batch.i < Len(batch.Requests)
    /\ LET item   == batch.Requests[batch.i + 1]
           convErr == item.Type = "bogus" \/ ~convOk
           procErr == ~convErr /\ item.Options /\ batch.processor /\ ~procOk
       IN batch' = IF convErr \/ procErr
                   THEN [ItemDone(batch, TRUE) EXCEPT !.pc = "merge"]
                   ELSE ItemDone(batch, FALSE)
    /\ UNCHANGED notBatch

\* One iteration of `for i, convReq := range req.Requests`: the conversion
\* by type (an unknown type is an error), post-processing when the item has
\* options and a processor exists, then the item's result.
BatchItem(convOk, procOk) ==
    /\ batch.pc = "loop" /\ batch.i < Len(batch.Requests)
    /\ LET item   == batch.Requests[batch.i + 1]
           convErr == item.Type = "bogus" \/ ~convOk
           procErr == ~convErr /\ item.Options /\ batch.processor /\ ~procOk
       IN batch' = ItemDone(batch, convErr \/ procErr)
    /\ UNCHANGED notBatch

\* The loop has ended.
BatchLoopEnd ==
    /\ batch.pc = "loop" /\ batch.i >= Len(batch.Requests)
    /\ batch' = [batch EXCEPT !.pc = "merge"]
    /\ UNCHANGED notBatch

\* The optional merge (its failure leaves MergedPDF empty) and the JSON
\* response.
BatchRespond(mergeOk) ==
    /\ batch.pc = "merge"
    /\ batch' = [batch EXCEPT
                    !.MergedPDF = batch.Merge /\ batch.allPDFs > 0 /\ batch.processor
                                  /\ mergeOk,
                    !.pc = "responded", !.status = 200]
    /\ UNCHANGED notBatch

BatchNext ==
    \/ BatchStart
    \/ \E convOk \in BOOLEAN, procOk \in BOOLEAN : BatchItem(convOk, procOk)
    \/ BatchLoopEnd
    \/ \E mergeOk \in BOOLEAN : BatchRespond(mergeOk)

BatchSpec == BatchInit /\ [][BatchNext]_vars

\* ---------------------------------------------------------------------------
\* ExtendedHandler.Async: the handler and the goroutine it starts, interleaved.
\* ---------------------------------------------------------------------------

\* A request body reaches the handler: valid JSON or not, with or without
\* webhook, storage and options; h.processor is set or nil.
AsyncInit ==
    /\ NewChromeConverter
    /\ call = NoCall
    /\ rl = NoLimiter
    /\ manip = NoManip
    /\ send = NoSend
    /\ batch = NoBatch
    /\ async \in {[NoAsync EXCEPT !.validJSON = j, !.Webhook = w, !.Storage = st,
                                   !.Type = t, !.Options = o, !.processor = p,
                                   !.hpc = "start"] :
                      j \in BOOLEAN, w \in BOOLEAN, st \in BOOLEAN, t \in AsyncTypes,
                      o \in BOOLEAN, p \in BOOLEAN}

\* Decode and validation; an admitted request starts the goroutine.
AsyncDecode ==
    /\ async.hpc = "start"
    /\ async' = IF ~async.validJSON \/ (~async.Webhook /\ ~async.Storage)
                THEN [async EXCEPT !.hpc = "done", !.status = 400]
                ELSE [async EXCEPT !.hpc = "respond", !.wpc = "convert"]
    /\ UNCHANGED notAsync

\* The handler writes 202 and the "queued" body.
AsyncRespond ==
    /\ async.hpc = "respond"
    /\ async' = [async EXCEPT !.hpc = "done", !.status = 202, !.body = "queued"]
    /\ UNCHANGED notAsync

\* processAsync: the conversion by type; an unknown type is an error.
ProcConvert(ok) ==
    /\ async.wpc = "convert"
    /\ async' = [async EXCEPT
                    !.err = IF async.Type = "bogus" \/ ~ok THEN "convert" ELSE "",
                    !.converted = TRUE, !.wpc = "process"]
    /\ UNCHANGED notAsync

\* processAsync: post-processing, when nothing failed, options were given
\* and a processor exists.
ProcPostProcess(ok) ==
    /\ async.wpc = "process"
    /\ async' = IF async.err = "" /\ async.Options /\ async.processor
                THEN [async EXCEPT !.err = IF ok THEN "" ELSE "process",
                                   !.processed = TRUE, !.wpc = "upload"]
                ELSE [async EXCEPT !.wpc = "upload"]
    /\ UNCHANGED notAsync

\* Variant of ProcUpload that uploads whenever a storage config is present.
ProcUpload_Always(ok) ==
    /\ async.wpc = "upload"
    /\ async' = IF async.Storage
                THEN [async EXCEPT !.err = IF ok THEN @ ELSE "upload",
                                   !.uploads = @ + 1, !.wpc = "webhook"]
                ELSE [async EXCEPT !.wpc = "webhook"]
    /\ UNCHANGED notAsync

\* processAsync: the storage upload, when nothing failed and a storage
\* config is present.
ProcUpload(ok) ==
    /\ async.wpc = "upload"
    /\ async' = IF async.err = "" /\ async.Storage
                THEN [async EXCEPT !.err = IF ok THEN "" ELSE "upload",
                                   !.uploads = @ + 1, !.wpc = "webhook"]
                ELSE [async EXCEPT !.wpc = "webhook"]
    /\ UNCHANGED notAsync

\* processAsync: with a webhook config, the payload by err and one call of
\* webhookSvc.Send (whose error is only logged).
ProcWebhook ==
    /\ async.wpc = "webhook"
    /\ async' = IF async.Webhook
                THEN [async EXCEPT
                        !.payload = IF async.err # "" THEN CreateErrorPayload
                                                       ELSE CreateSuccessPayload,
                        !.sendCalls = @ + 1, !.wpc = "log"]
                ELSE [async EXCEPT !.wpc = "log"]
    /\ UNCHANGED notAsync

\* processAsync: the final log line; the goroutine ends.
ProcLog ==
    /\ async.wpc = "log"
    /\ async' = [async EXCEPT !.wpc = "done"]
    /\ UNCHANGED notAsync

AsyncNext ==
    \/ AsyncDecode
    \/ AsyncRespond
    \/ \E ok \in BOOLEAN : ProcConvert(ok)
    \/ \E ok \in BOOLEAN : ProcPostProcess(ok)
    \/ \E ok \in BOOLEAN : ProcUpload(ok)
    \/ ProcWebhook
    \/ ProcLog

AsyncSpec == AsyncInit /\ [][AsyncNext]_vars

GetWorkerStatus ==
    [Max |-> maxWorkers, Available |-> maxWorkers - workerPool, InUse |-> workerPool]

\* GetMetrics: the three atomic counters and the entries of the sync.Map.
GetMetrics ==
    [Total |-> totalConversions,
     Successful |-> successfulConversions,
     Failed |-> failedConversions,
     ByType |-> [l \in {k \in Labels : conversionsByType[k] # NoEntry} |->
                    conversionsByType[l]]]

TypeOK ==
    /\ workerPool \in 0..maxWorkers
    /\ semaphore \in 0..maxWorkers
    /\ taskCtx \subseteq Requests
    /\ method \in [Requests -> Methods \cup {"none"}]
    /\ err \in [Requests -> ErrKinds]

----------------------------------------------------------------------------
\* Vocabulary of the properties.

\* The request is one of the five conversion types (not MergePDFs).
IsConversion(r) == method[r] \in {"ConvertHTML", "ConvertURL", "ConvertImages"}

\* The request holds an admission slot: it has acquired and not yet released.
HoldsSlot(r) == acquires[r] > releases[r]

SlotHolders == {r \in Requests : HoldsSlot(r)}

\* No call is in progress.
Quiescent == \A r \in Requests : pc[r] \in {"idle", "done"}

\* The call has returned a (bytes, err) pair to its caller.
Returned(r) == pc[r] = "done" /\ result[r] # NoResult

\* Sum of the per-type counters of a GetMetrics snapshot.
RECURSIVE SumByType(_, _)
SumByType(byType, keys) ==
    IF keys = {} THEN 0
    ELSE LET k == CHOOSE x \in keys : TRUE
         IN byType[k] + SumByType(byType, keys \ {k})

----------------------------------------------------------------------------
\* C1: for any mix of conversion types, the number of requests that hold an
\* admission slot, and the number of live task contexts, never exceeds
\* maxWorkers.
C1_ConcurrencyBound ==
    /\ Cardinality(SlotHolders) <= maxWorkers
    /\ Cardinality(taskCtx) <= maxWorkers

\* C2: every conversion request acquires a slot exactly once and releases it
\* exactly once on every exit path (success, error, timeout, panic); once all
\* calls have completed the gate reports nothing in use and everything
\* available.
C2_SlotConservation ==
    /\ \A r \in Requests :
          /\ acquires[r] <= 1
          /\ releases[r] <= acquires[r]
          /\ (pc[r] = "done" /\ IsConversion(r)) => (acquires[r] = 1 /\ releases[r] = 1)
    /\ Quiescent =>
          /\ GetWorkerStatus.InUse = 0
          /\ GetWorkerStatus.Available = GetWorkerStatus.Max
          /\ semaphore = 0

\* C2 witness: a whole batch has completed, with a timeout and a panic in it.
C2_Witness ==
    /\ \A r \in Requests : pc[r] = "done" /\ IsConversion(r)
    /\ \E r \in Requests : err[r] = "timeout" /\ method[r] = "ConvertURL"
    /\ \E r \in Requests : err[r] = "panic" /\ method[r] = "ConvertImages"

\* C3: a task context exists only while its request holds an admission slot:
\* it is created after the acquire and torn down before the release, on every
\* exit path.
C3_ContextWithinSlot ==
    \A r \in Requests :
        /\ r \in taskCtx => HoldsSlot(r)
        /\ pc[r] = "done" => r \notin taskCtx

\* C3 witness: after a timeout the context is already torn down while the
\* slot is still held, and another request has its context alive in its slot.
C3_Witness ==
    \E r, q \in Requests :
        /\ pc[r] = "defer_release" /\ err[r] = "timeout"
        /\ r \notin taskCtx /\ HoldsSlot(r)
        /\ q \in taskCtx /\ HoldsSlot(q)

\* C4: every conversion that returns a result, successful or failed, has
\* incremented the metrics exactly once before returning.
C4_MetricsEveryAttempt ==
    \A r \in Requests :
        (IsConversion(r) /\ result[r] # NoResult) => metricCalls[r] = 1

\* C5: once S successful and F failed conversions have completed and no call
\* is in progress, the snapshot has total = S + F, successful = S, failed = F
\* and the per-type counters sum to total.
C5_MetricsAccuracy ==
    LET S == Cardinality({r \in Requests : Returned(r) /\ result[r].err = "nil"})
        F == Cardinality({r \in Requests : Returned(r) /\ result[r].err # "nil"})
        m == GetMetrics
    IN Quiescent =>
          /\ m.Total = S + F
          /\ m.Successful = S
          /\ m.Failed = F
          /\ SumByType(m.ByType, DOMAIN m.ByType) = m.Total

\* Completed incrementMetric calls that passed label l.
CallsWithLabel(l) ==
    {r \in Requests : metricCalls[r] = 1 /\ MetricLabel(method[r]) = l}

\* Value of the per-type counter l, 0 while it has no entry.
CounterValue(l) == IF conversionsByType[l] = NoEntry THEN 0 ELSE conversionsByType[l]

\* C6: under every interleaving of concurrent incrementMetric calls, each
\* per-type counter equals the number of calls with that label that have
\* returned (no lost update, also when several callers create the counter at
\* once), and every call that has entered the retry loop leaves it: a call
\* is made once per request, so from some point on no caller is in the loop.
C6_IncrementSafe ==
    /\ [](\A l \in Labels : CounterValue(l) = Cardinality(CallsWithLabel(l)))
    /\ <>[](\A r \in Requests : pc[r] \notin {"inc_load", "inc_cas"})

\* C6 witness: a caller is about to compare against a value that another
\* caller with the same label has already replaced, both having found the
\* counter absent or equal on entry.
C6_Witness ==
    \E r, q \in Requests :
        /\ r # q /\ method[r] = method[q]
        /\ pc[r] = "inc_cas" /\ current[r] = 0
        /\ metricCalls[q] = 1
        /\ conversionsByType[MetricLabel(method[r])] = 1

\* C7: once the caller's context has been cancelled while the request is
\* blocked waiting for a slot, the request does not go on to take a permit.
C7_AcquireAbandoned ==
    [][\A r \in Requests :
         (pc[r] = "acquire" /\ callerCancelled[r]) => pc'[r] # "newctx"]_vars

\* C8: a request whose deadline fired during the pipeline is abandoned: it
\* returns an error and no bytes, and when the call has ended its task
\* context is gone and its slot has been released.
C8_TimeoutAbandons ==
    \A r \in Requests :
        err[r] = "timeout" =>
            /\ pc[r] \notin RunStages \cup {"stalled"}
            /\ result[r] # NoResult =>
                  (result[r].bytes = FALSE /\ result[r].err = "timeout")
            /\ pc[r] = "done" =>
                  /\ result[r] # NoResult
                  /\ r \notin taskCtx
                  /\ ~HoldsSlot(r)

\* C8 witness: timed-out calls of the inline and of the remote variant have
\* both ended.
C8_Witness ==
    \E r, q \in Requests :
        /\ pc[r] = "done" /\ err[r] = "timeout" /\ method[r] = "ConvertURL"
        /\ pc[q] = "done" /\ err[q] = "timeout" /\ method[q] = "ConvertHTML"

\* C9: once the caller's context has been cancelled, a request inside the
\* pipeline makes no further progress in it: it can only leave chromedp.Run
\* with an error.
C9_CallerCancelHonoured ==
    [][\A r \in Requests :
         (pc[r] \in RunStages /\ callerCancelled[r]) =>
             \/ pc'[r] \in {pc[r], "stalled"}
             \/ pc'[r] \notin RunStages /\ err'[r] # "nil"]_vars

\* C10: every request that has been issued eventually ends, also when the
\* content of some request never becomes ready, and every request waiting
\* for a slot eventually gets one.  A request is issued at most once, so
\* this is: from some point on every request either was never issued or has
\* ended, and every conversion that ended has been through the gate.
C10_NoIndefiniteBlocking ==
    <>[](\A r \in Requests :
           \/ pc[r] = "idle"
           \/ pc[r] = "done" /\ (IsConversion(r) => acquires[r] = 1))

\* C10 witness: a request waits on a full channel whose only slot is held by
\* a request whose content never becomes ready.
C10_Witness ==
    \E r, q \in Requests :
        /\ pc[q] = "stalled" /\ HoldsSlot(q)
        /\ pc[r] = "acquire" /\ GateFull(r)
        /\ (method[r] = "ConvertHTML") <=> (method[q] = "ConvertHTML")

\* C11: GetWorkerStatus reports Max = maxWorkers, InUse = the number of
\* admission slots held by in-flight conversions of any type, and
\* Available = Max - InUse, with 0 <= InUse <= Max.
C11_WorkerStatusExact ==
    LET st == GetWorkerStatus
    IN /\ st.Max = maxWorkers
       /\ st.InUse = Cardinality(SlotHolders)
       /\ st.Available = st.Max - st.InUse
       /\ 0 <= st.InUse /\ st.InUse <= st.Max

\* Position of a program point in the order of a conversion call; the steps
\* of incrementMetric share one position.
StageRank(p) ==
    CASE p = "idle"          -> 0
      [] p = "acquire"       -> 1
      [] p = "newctx"        -> 2
      [] p = "navigate"      -> 3
      [] p = "setcontent"    -> 4
      [] p = "waitready"     -> 5
      [] p = "stalled"       -> 6
      [] p = "sleep"         -> 7
      [] p = "print"         -> 8
      [] p \in {"inc_total", "inc_outcome", "inc_load", "inc_cas"} -> 9
      [] p = "defer_cancel"  -> 10
      [] p = "defer_release" -> 11
      [] p = "done"          -> 12

\* C13: the conversion core never retries: a request never goes back to an
\* earlier point of its call (so the acquisition, the context creation, the
\* load and the emission are each attempted at most once), it acquires at
\* most once, its context is created only at the creation step, and the
\* result it has computed is never replaced.
C13_NoRetry ==
    [][\A r \in Requests :
         /\ StageRank(pc'[r]) >= StageRank(pc[r])
         /\ acquires'[r] <= 1
         /\ (r \notin taskCtx /\ r \in taskCtx') => pc[r] = "newctx"
         /\ result[r] # NoResult => result'[r] = result[r]]_vars

\* C13 witness: a request whose pipeline failed has ended with that single
\* failure as its result, after one acquisition.
C13_Witness ==
    \E r \in Requests :
        /\ pc[r] = "done" /\ err[r] = "fail" /\ method[r] = "ConvertURL"
        /\ acquires[r] = 1 /\ result[r] = [bytes |-> FALSE, err |-> "fail"]

\* C15: in every conversion variant the PDF emission step is entered only
\* from the fixed settle delay, which itself follows the content load.
C15_EmissionAfterSettle ==
    [][\A r \in Requests :
         (pc[r] # "print" /\ pc'[r] = "print") => pc[r] = "sleep"]_vars

\* The per-type label the claim expects a call of a method to be counted
\* under.
ExpectedLabel(m) ==
    CASE m = "ConvertHTML"   -> "html"
      [] m = "ConvertURL"    -> "url"
      [] m = "ConvertImages" -> "images"

\* C19: when a single conversion has been issued and has returned, the
\* snapshot shows total = 1, successful = 1 and failed = 0 if it returned
\* bytes, total = 1, failed = 1 and successful = 0 if it returned an error,
\* and exactly one per-type counter, the one of its type, equal to 1.
C19_PerConversionDelta ==
    \A r \in Requests :
        (/\ IsConversion(r) /\ Returned(r)
         /\ \A q \in Requests \ {r} : pc[q] = "idle") =>
            LET m == GetMetrics
            IN /\ m.Total = 1
               /\ m.Successful = (IF result[r].err = "nil" THEN 1 ELSE 0)
               /\ m.Failed = (IF result[r].err = "nil" THEN 0 ELSE 1)
               /\ DOMAIN m.ByType = {ExpectedLabel(method[r])}
               /\ \A l \in DOMAIN m.ByType : m.ByType[l] = 1

\* C20: the metrics are never reset: total, successful, failed and every
\* per-type counter never decrease, and a per-type entry once present stays.
C20_MetricsMonotone ==
    [][/\ totalConversions' >= totalConversions
       /\ successfulConversions' >= successfulConversions
       /\ failedConversions' >= failedConversions
       /\ \A l \in Labels :
             /\ conversionsByType[l] # NoEntry => conversionsByType'[l] # NoEntry
             /\ conversionsByType'[l] >= conversionsByType[l]]_vars

\* C20 witness: a call has loaded a counter that earlier calls had already
\* raised, and is about to raise it further.
C20_Witness ==
    \E r \in Requests :
        /\ pc[r] = "inc_cas" /\ current[r] >= 1
        /\ conversionsByType[MetricLabel(method[r])] = current[r]
        /\ totalConversions >= 2

\* C14: no two requests share a task context: every request inside
\* chromedp.Run has a context, a live context belongs to the call that
\* created it, and two requests with live contexts have different ones.
C14_NoSharedContext ==
    /\ \A r \in Requests :
          (pc[r] \in RunStages \cup {"stalled"}) => ctxOf[r] # NoContext
    /\ \A r \in Requests : (r \in taskCtx) <=> (ctxOf[r] # NoContext)
    /\ \A r, q \in Requests :
          (r # q /\ ctxOf[r] # NoContext /\ ctxOf[q] # NoContext) =>
              ctxOf[r] # ctxOf[q]

\* C14 witness: two requests are inside chromedp.Run at the same time, each
\* with a live context.
C14_Witness ==
    \E r, q \in Requests :
        /\ r # q
        /\ pc[r] \in RunStages /\ pc[q] \in RunStages
        /\ ctxOf[r] # NoContext /\ ctxOf[q] # NoContext

\* C12: every conversion returns either PDF bytes with no error or an error
\* with no bytes; a failed or timed-out emission returns no bytes and a
\* success never returns an empty payload.
C12_BytesXorError ==
    call.step = "returned" =>
        \/ call.ret.bytes /\ call.ret.err = "nil"
        \/ ~call.ret.bytes /\ call.ret.err # "nil"

\* C16: for the same options (nil included) ConvertHTML passes the emission
\* parameters ConvertURL passes (width, height, margins, background flag,
\* scale) and waits the same settle delay.
C16_SameEmission ==
    (call.fn = "ConvertHTML" /\ call.step # "entry") =>
        /\ call.params = ConvertURLParams(call.opts)
        /\ call.settle = SettleDelay("ConvertURL")

\* C17: the scale ConvertURL passes to the emission is within [0.1, 2.0]; a
\* requested scale inside that range is passed unchanged and every
\* requested scale outside it is replaced by 1.0.
C17_ScaleInRange ==
    (call.fn = "ConvertURL" /\ call.step # "entry") =>
        /\ call.params.Scale \in 10..200
        /\ ~call.opts.isNil =>
              IF call.opts.Scale \in 10..200
              THEN call.params.Scale = call.opts.Scale
              ELSE call.params.Scale = 100

\* C18: for every page size and every method of chrome.go the emitted
\* dimensions are the table's width and height for portrait and the two
\* exchanged for landscape, an unknown page size counting as A4.
C18_PageGeometry ==
    (/\ call.fn \in {"ConvertHTML", "ConvertURL", "ConvertImages"}
     /\ call.step # "entry"
     /\ ~call.opts.isNil
     /\ call.opts.Orientation \in Orientations) =>
        LET dims == GetDimensions(call.opts.PageSize)
        IN IF call.opts.Orientation = "landscape"
           THEN /\ call.params.PaperWidth = dims.Height
                /\ call.params.PaperHeight = dims.Width
           ELSE /\ call.params.PaperWidth = dims.Width
                /\ call.params.PaperHeight = dims.Height

\* C21: the deadline of an inline-content conversion (ConvertHTML) is longer
\* than the deadline of a remote-URL conversion (ConvertURL).
C21_InlineDeadlineLonger ==
    (call.fn = "ConvertHTML" /\ call.step # "entry") =>
        call.deadline > Timeout("ConvertURL")

\* The positions of a call inside incrementMetric.
MetricSteps == {"inc_total", "inc_outcome", "inc_load", "inc_cas"}

\* C24: within one request the admission slot is released before the
\* metrics are updated: a conversion inside incrementMetric, or past it
\* with its return values computed, no longer holds its slot.
C24_ReleaseBeforeMetrics ==
    \A r \in Requests :
        (IsConversion(r) /\ (pc[r] \in MetricSteps \/ metricCalls[r] > 0)) =>
            ~HoldsSlot(r)

\* The incrementMetric calls in progress.
InIncrement == {r \in Requests : pc[r] \in MetricSteps}

\* C25: in every state, increments in flight included, successful + failed
\* <= total, and total - (successful + failed) is at most the number of
\* incrementMetric calls in progress.
C25_OutcomeWithinTotal ==
    /\ successfulConversions + failedConversions <= totalConversions
    /\ totalConversions - (successfulConversions + failedConversions)
          <= Cardinality(InIncrement)

\* C25 witness: two incrementMetric calls have both counted the total and
\* neither has counted its outcome.
C25_Witness ==
    /\ Cardinality({r \in Requests : pc[r] = "inc_outcome"}) = 2
    /\ totalConversions - (successfulConversions + failedConversions) = 2

\* The requests from address a forwarded in the window that starts at t.
ForwardedIn(a, t) ==
    {f \in rl.forwarded : f.ip = a /\ f.at >= t /\ f.at < t + Window}

\* C22: with limit > 0 the rate limiter forwards, for each client address,
\* at most `limit` requests within any window of one minute, and a request
\* it answers with 429 is not forwarded; with limit <= 0 every request is
\* forwarded.
C22_RateLimited ==
    /\ rl.limit > 0 =>
          \A a \in Addrs, t \in 0..MaxTime :
              Cardinality(ForwardedIn(a, t)) <= rl.limit
    /\ \A h \in Conns :
          rl.conn[h].pc = "rejected" => \A f \in rl.forwarded : f.conn # h
    /\ rl.limit <= 0 => \A h \in Conns : rl.conn[h].pc \in {"idle", "forwarded"}

\* The chunk size Split uses for every_n.
ChunkSize == IF manip.everyN <= 0 THEN 1 ELSE manip.everyN

\* ceil(pageCount / ChunkSize)
ChunkCount == (manip.pageCount + ChunkSize - 1) \div ChunkSize

\* C23: Split with "every_n" returns ceil(pageCount/n) chunks, the k-th
\* holding the pages 1+(k-1)n .. min(kn, pageCount), with n <= 0 taken as 1
\* (so the chunks are disjoint, ascending and cover 1..pageCount once);
\* Split with "all" returns exactly pageCount single-page parts.
C23_SplitChunks ==
    (manip.op = "Split" /\ manip.pc = "returned") =>
        /\ manip.splitType = "every_n" =>
              /\ manip.err = "nil"
              /\ Len(manip.pages) = ChunkCount
              /\ \A k \in 1..Len(manip.pages) :
                    manip.pages[k] =
                        PageRun(1 + (k - 1) * ChunkSize,
                                IF k * ChunkSize > manip.pageCount
                                THEN manip.pageCount ELSE k * ChunkSize)
        /\ manip.splitType = "all" =>
              /\ manip.err = "nil"
              /\ Len(manip.pages) = manip.pageCount
              /\ \A k \in 1..Len(manip.pages) : manip.pages[k] = <<k>>

\* The pages of 1..pageCount that no part of the pages-to-remove list names.
KeptPages ==
    {p \in 1..manip.pageCount :
        \A k \in 1..Len(manip.list) :
            LET part == manip.list[k]
            IN IF Len(part) = 1 THEN p # part[1]
               ELSE p < part[1] \/ p > part[2]}

\* C29: RemovePages keeps exactly the pages not named in the list: the keep
\* list is ascending and made of maximal runs, "%d" for a run of one page,
\* and the output holds every kept page once, in order, and no removed
\* page; when no page is kept it fails with "cannot remove all pages" and
\* produces no output.
C29_RemovePagesKeeps ==
    (manip.op = "RemovePages" /\ manip.pc = "returned") =>
        IF KeptPages = {}
        THEN manip.err = "cannot remove all pages" /\ manip.out = <<>>
        ELSE /\ manip.err = "nil"
             /\ Len(manip.out) = Cardinality(KeptPages)
             /\ \A k \in 1..Len(manip.out) : manip.out[k] \in KeptPages
             /\ \A k \in 1..(Len(manip.out) - 1) : manip.out[k] < manip.out[k + 1]
             /\ \A k \in 1..Len(manip.keepRanges) :
                   LET rg == manip.keepRanges[k]
                   IN /\ Len(rg) = 2 => rg[1] < rg[2]
                      /\ k < Len(manip.keepRanges) =>
                            rg[Len(rg)] + 1 < manip.keepRanges[k + 1][1]

\* C29 witness: RemovePages has returned an output made of a run of two
\* pages and a single page, the removed page between them left out.
C29_Witness ==
    /\ manip.op = "RemovePages" /\ manip.pc = "returned" /\ manip.err = "nil"
    /\ manip.keepRanges = <<<<1, 2>>, <<4>>>>
    /\ manip.out = <<1, 2, 4>>

\* The retry budget Send works with for the configuration it was given.
MaxRetriesOf == IF send.RetryCount > 0 THEN send.RetryCount ELSE retries

\* What C26 and its amended form share: at most maxRetries+1 delivery
\* attempts; nil is returned exactly at a 2xx answer and nothing is sent
\* after it; a nil config or an empty URL returns nil with zero attempts.
SendBasics ==
    /\ send.config = "url" => send.sent <= MaxRetriesOf + 1
    /\ send.config = "url" => send.iterations <= MaxRetriesOf + 1
    /\ send.got2xx => send.pc = "returned" /\ send.ret = "nil"
    /\ (send.pc = "returned" /\ send.config = "url") =>
          (send.ret = "nil" <=> send.got2xx)
    /\ (send.pc = "returned" /\ send.config # "url") =>
          send.ret = "nil" /\ send.sent = 0 /\ send.iterations = 0

C28_BatchAccounting ==
    /\ (batch.pc = "responded" /\ Len(batch.Requests) >= 1) =>
          /\ batch.status = 200
          /\ batch.Total = Len(batch.Requests)
          /\ batch.Completed + batch.Failed = batch.Total
          /\ Len(batch.Results) = Len(batch.Requests)
          /\ \A k \in 1..Len(batch.Results) :
                /\ batch.Results[k].Index = k - 1
                /\ batch.Results[k].Success = batch.counted[k]
          /\ Cardinality({k \in 1..Len(batch.Results) : batch.Results[k].Success})
                = batch.Completed
    /\ batch.pc = "loop" =>
          /\ Len(batch.Results) = batch.i
          /\ batch.Completed + batch.Failed = batch.i

\* C28 witness: a batch of three items has been answered; the first item
\* failed and the two after it were converted.
C28_Witness ==
    /\ batch.pc = "responded" /\ Len(batch.Requests) = 3
    /\ batch.Failed = 1 /\ batch.Completed = 2
    /\ ~batch.Results[1].Success /\ batch.Results[2].Success /\ batch.Results[3].Success

\* The goroutine has passed the webhook step.
PastWebhook == async.wpc \in {"log", "done"}

\* C30: an async request is answered 202 "queued" only with a webhook or a
\* storage config, and the handler can answer whatever the goroutine is
\* doing; with a webhook, processAsync calls webhook delivery exactly once,
\* after the conversion ended, with conversion.failed when conversion,
\* post-processing or upload failed and conversion.completed otherwise; the
\* upload is attempted only after conversion and post-processing succeeded.
C30_AsyncAccepted ==
    /\ async.status = 202 => (async.body = "queued" /\ (async.Webhook \/ async.Storage))
    /\ async.wpc # "none" => (async.validJSON /\ (async.Webhook \/ async.Storage))
    /\ async.hpc = "respond" => ENABLED AsyncRespond
    /\ async.sendCalls <= 1
    /\ async.sendCalls = 1 => (async.Webhook /\ async.converted /\ PastWebhook)
    /\ (PastWebhook /\ async.Webhook) =>
          /\ async.sendCalls = 1
          /\ async.payload = IF async.err \in {"convert", "process", "upload"}
                              THEN "conversion.failed" ELSE "conversion.completed"
    /\ ~async.Webhook => (async.sendCalls = 0 /\ async.payload = "")
    /\ async.uploads <= 1
    /\ async.uploads = 1 =>
          /\ async.Storage /\ async.converted
          /\ async.err \in {"", "upload"}
          /\ async.Type # "bogus"

\* C30 witness: the handler has answered 202 while the goroutine has not
\* finished; the conversion succeeded, the upload was attempted and failed,
\* and the one webhook call carried conversion.failed.
C30_Witness ==
    /\ async.status = 202 /\ async.wpc = "log"
    /\ async.Webhook /\ async.Storage
    /\ async.uploads = 1 /\ async.err = "upload"
    /\ async.sendCalls = 1 /\ async.payload = "conversion.failed"
====
